---------------------------- MODULE Spec2Model ----------------------------
(***************************************************************************)
(* Battle Cats save editor (core/save_editor.py): the field writers        *)
(* set_cat_food / set_xp, the checksum patcher patch_checksum and the      *)
(* file handle they work through.                                          *)
(*                                                                         *)
(* A byte is a number in 0..255, a bytes object a sequence of bytes, a     *)
(* Python str a sequence of one-character strings.  A 32-bit word is kept  *)
(* as <<hi, lo>>, two 16-bit halves, because the checker's integers are    *)
(* 32-bit signed.                                                          *)
(***************************************************************************)
EXTENDS Integers, Sequences, FiniteSets, TLC

(***************************************************************************)
(* hashlib.md5 (RFC 1321), computed as the library computes it.            *)
(***************************************************************************)
RECURSIVE BitAndRec(_, _)
BitAndRec(a, b) ==
    IF a = 0 \/ b = 0 THEN 0
    ELSE (a % 2) * (b % 2) + 2 * BitAndRec(a \div 2, b \div 2)

\* the bitwise and of two 4-bit numbers, tabulated once
NibbleAnd == [a \in 0..15 |-> [b \in 0..15 |-> BitAndRec(a, b)]]

\* the bitwise and of two 16-bit numbers
BitAnd(a, b) ==
    NibbleAnd[a % 16][b % 16]
    + 16 * NibbleAnd[(a \div 16) % 16][(b \div 16) % 16]
    + 256 * NibbleAnd[(a \div 256) % 16][(b \div 256) % 16]
    + 4096 * NibbleAnd[a \div 4096][b \div 4096]

BitOr(a, b) == a + b - BitAnd(a, b)

BitXor(a, b) == a + b - 2 * BitAnd(a, b)

BitNot16(a) == 65535 - a

WAnd(x, y) == <<BitAnd(x[1], y[1]), BitAnd(x[2], y[2])>>

WOr(x, y) == <<BitOr(x[1], y[1]), BitOr(x[2], y[2])>>

WXor(x, y) == <<BitXor(x[1], y[1]), BitXor(x[2], y[2])>>

WNot(x) == <<BitNot16(x[1]), BitNot16(x[2])>>

\* addition modulo 2^32
WAdd(x, y) ==
    LET lo == x[2] + y[2]
        hi == x[1] + y[1] + (lo \div 65536)
    IN  <<hi % 65536, lo % 65536>>

Pow2(n) == 2 ^ n

\* rotate a 32-bit word left by s bits, 0 < s < 32
WRotl(x, s) ==
    LET y == IF s >= 16 THEN <<x[2], x[1]>> ELSE x
        r == s % 16
    IN  IF r = 0 THEN y
        ELSE <<(y[1] % Pow2(16 - r)) * Pow2(r) + (y[2] \div Pow2(16 - r)),
               (y[2] % Pow2(16 - r)) * Pow2(r) + (y[1] \div Pow2(16 - r))>>

\* floor(2^32 * abs(sin(i))) for i = 1..64
Md5K ==
    << <<55146, 42104>>, <<59591, 46934>>, <<9248, 28891>>, <<49597, 52974>>,
       <<62844, 4015>>, <<18311, 50730>>, <<43056, 17939>>, <<64838, 38145>>,
       <<27008, 39128>>, <<35652, 63407>>, <<65535, 23473>>, <<35164, 55230>>,
       <<27536, 4386>>, <<64920, 29075>>, <<42617, 17294>>, <<18868, 2081>>,
       <<63006, 9570>>, <<49216, 45888>>, <<9822, 23121>>, <<59830, 51114>>,
       <<54831, 4189>>, <<580, 5203>>, <<55457, 59009>>, <<59347, 64456>>,
       <<8673, 52710>>, <<49975, 2006>>, <<62677, 3463>>, <<17754, 5357>>,
       <<43491, 59653>>, <<64751, 41976>>, <<26479, 729>>, <<36138, 19594>>,
       <<65530, 14658>>, <<34673, 63105>>, <<28061, 24866>>, <<64997, 14348>>,
       <<42174, 59972>>, <<19422, 53161>>, <<63163, 19296>>, <<48831, 48240>>,
       <<10395, 32454>>, <<60065, 10234>>, <<54511, 12421>>, <<1160, 7429>>,
       <<55764, 53305>>, <<59099, 39397>>, <<8098, 31992>>, <<50348, 22117>>,
       <<62505, 8772>>, <<17194, 65431>>, <<43924, 9127>>, <<64659, 41017>>,
       <<25947, 22979>>, <<36620, 52370>>, <<65519, 62589>>, <<34180, 24017>>,
       <<28584, 32335>>, <<65068, 59104>>, <<41729, 17172>>, <<19976, 4513>>,
       <<63315, 32386>>, <<48442, 62005>>, <<10967, 53947>>, <<60294, 54161>> >>

\* per-round left rotations
Md5S ==
    << 7, 12, 17, 22, 7, 12, 17, 22, 7, 12, 17, 22, 7, 12, 17, 22,
       5, 9, 14, 20, 5, 9, 14, 20, 5, 9, 14, 20, 5, 9, 14, 20,
       4, 11, 16, 23, 4, 11, 16, 23, 4, 11, 16, 23, 4, 11, 16, 23,
       6, 10, 15, 21, 6, 10, 15, 21, 6, 10, 15, 21, 6, 10, 15, 21 >>

Md5Init == << <<26437, 8961>>, <<61389, 43913>>, <<39098, 56574>>, <<4146, 21622>> >>

\* the message followed by 0x80, zeros up to 56 mod 64, and its bit length
\* as a 64-bit little-endian integer
Md5Pad(msg) ==
    LET n    == Len(msg)
        z    == (119 - (n % 64)) % 64
        bits == n * 8
    IN  msg \o <<128>> \o [i \in 1..z |-> 0]
            \o <<bits % 256, (bits \div 256) % 256, (bits \div 65536) % 256,
                 (bits \div 16777216) % 256, 0, 0, 0, 0>>

\* word j (0..15) of the 64-byte block starting at byte offset off, little-endian
Md5Word(p, off, j) ==
    LET k == off + 4 * j
    IN  <<p[k + 3] + 256 * p[k + 4], p[k + 1] + 256 * p[k + 2]>>

\* one of the 64 steps, i in 0..63, on the state s = <<a, b, c, d>>
Md5Step(s, p, off, i) ==
    LET a == s[1]
        b == s[2]
        c == s[3]
        d == s[4]
        f == CASE i < 16 -> WOr(WAnd(b, c), WAnd(WNot(b), d))
               [] i < 32 -> WOr(WAnd(d, b), WAnd(WNot(d), c))
               [] i < 48 -> WXor(WXor(b, c), d)
               [] OTHER  -> WXor(c, WOr(b, WNot(d)))
        g == CASE i < 16 -> i
               [] i < 32 -> (5 * i + 1) % 16
               [] i < 48 -> (3 * i + 5) % 16
               [] OTHER  -> (7 * i) % 16
        t == WAdd(WAdd(WAdd(f, a), Md5K[i + 1]), Md5Word(p, off, g))
    IN  <<d, WAdd(b, WRotl(t, Md5S[i + 1])), b, c>>

\* steps i .. i+n-1 applied in order (n a power of two).  TLC evaluates an
\* operator's arguments only when they are first used; the test m = m in
\* Md5Then makes it compute the first half before it starts on the second,
\* which keeps the evaluation shallow.
RECURSIVE Md5Rounds(_, _, _, _, _), Md5Then(_, _, _, _, _)
Md5Rounds(s, p, off, i, n) ==
    IF n = 1 THEN Md5Step(s, p, off, i)
    ELSE Md5Then(Md5Rounds(s, p, off, i, n \div 2), p, off,
                 i + (n \div 2), n \div 2)

Md5Then(m, p, off, i, n) == IF m = m THEN Md5Rounds(m, p, off, i, n) ELSE m

\* the running state h plus the state s the 64 steps leave
Md5Sum(h, s) ==
    <<WAdd(h[1], s[1]), WAdd(h[2], s[2]), WAdd(h[3], s[3]), WAdd(h[4], s[4])>>

\* the running state h after the blocks from byte offset off on
RECURSIVE Md5Blocks(_, _, _), Md5Rest(_, _, _)
Md5Blocks(h, p, off) ==
    IF off >= Len(p) THEN h
    ELSE Md5Rest(Md5Sum(h, Md5Rounds(h, p, off, 0, 64)), p, off + 64)

Md5Rest(h, p, off) == IF h = h THEN Md5Blocks(h, p, off) ELSE h

WordBytes(w) == <<w[2] % 256, w[2] \div 256, w[1] % 256, w[1] \div 256>>

Md5Digest(h) ==
    WordBytes(h[1]) \o WordBytes(h[2]) \o WordBytes(h[3]) \o WordBytes(h[4])

\* hashlib.md5(msg).digest(): 16 bytes
Md5(msg) == Md5Digest(Md5Blocks(Md5Init, Md5Pad(msg), 0))

HexChars == <<"0", "1", "2", "3", "4", "5", "6", "7",
              "8", "9", "a", "b", "c", "d", "e", "f">>

\* bytes.hex() / hexdigest(): two lowercase hex characters per byte
HexOfBytes(bs) ==
    [i \in 1..(2 * Len(bs)) |->
        LET b == bs[(i + 1) \div 2]
        IN  HexChars[(IF i % 2 = 1 THEN b \div 16 ELSE b % 16) + 1]]

(***************************************************************************)
(* Python values.  An int is unbounded in Python; an amount is kept as     *)
(* sign and two base-65536 limbs, amount = (-1)^neg * (hi * 65536 + lo).   *)
(***************************************************************************)
Min(a, b) == IF a < b THEN a ELSE b

Max(a, b) == IF a > b THEN a ELSE b

PosInt(hi, lo) == [neg |-> FALSE, hi |-> hi, lo |-> lo]

NegInt(hi, lo) == [neg |-> TRUE, hi |-> hi, lo |-> lo]

\* a slice bound k of a sequence of length n, as Python clamps it
SliceIndex(k, n) == IF k < 0 THEN Max(n + k, 0) ELSE Min(k, n)

\* s[i:j]
Slice(s, i, j) == SubSeq(s, SliceIndex(i, Len(s)) + 1, SliceIndex(j, Len(s)))

\* s[i:]
SliceFrom(s, i) == SubSeq(s, SliceIndex(i, Len(s)) + 1, Len(s))

\* s[:j]
SliceTo(s, j) == SubSeq(s, 1, SliceIndex(j, Len(s)))

RECURSIVE HexDigits(_)
HexDigits(n) ==
    IF n < 16 THEN <<HexChars[n + 1]>>
    ELSE HexDigits(n \div 16) \o <<HexChars[(n % 16) + 1]>>

Hex4(n) ==
    <<HexChars[(n \div 4096) + 1], HexChars[((n \div 256) % 16) + 1],
      HexChars[((n \div 16) % 16) + 1], HexChars[(n % 16) + 1]>>

\* hex(amount): "0x..." or "-0x...", lowercase, no leading zeros
hex(amount) ==
    (IF amount.neg THEN <<"-">> ELSE <<>>) \o <<"0", "x">>
    \o (IF amount.hi = 0 THEN HexDigits(amount.lo)
        ELSE HexDigits(amount.hi) \o Hex4(amount.lo))

IsHexChar(c) == \E i \in 1..16 : HexChars[i] = c

HexVal(c) == (CHOOSE i \in 1..16 : HexChars[i] = c) - 1

\* bytes.fromhex(s): the bytes, or ValueError (ok = FALSE) when s holds a
\* character that is no hex digit or an odd number of digits
fromhex(s) ==
    IF Len(s) % 2 = 0 /\ \A i \in 1..Len(s) : IsHexChar(s[i])
    THEN [ok |-> TRUE,
          val |-> [k \in 1..(Len(s) \div 2) |->
                     16 * HexVal(s[2 * k - 1]) + HexVal(s[2 * k])]]
    ELSE [ok |-> FALSE, val |-> <<>>]

\* the code points of a str of hex digits (ord of each character)
Ord(c) == IF HexVal(c) < 10 THEN 48 + HexVal(c) ELSE 87 + HexVal(c)

StrCodes(s) == [i \in 1..Len(s) |-> Ord(s[i])]

\* binascii.hexlify(bs): the ASCII bytes of the lowercase hex of bs
hexlify(bs) == StrCodes(HexOfBytes(bs))

(***************************************************************************)
(* The save file and the buffered handle open(save_path, 'r+b') gives.     *)
(* seek() first flushes what write() buffered; write() only buffers.       *)
(* An io value is the handle and the file during one call: err is the      *)
(* exception raised so far ("None": none), wrote the offsets written.      *)
(***************************************************************************)
NoWrite == [at |-> 0, data |-> <<>>]

\* the file after data is written at offset at (a gap past the end reads 0)
ApplyWrite(f, at, data) ==
    [i \in 1..Max(Len(f), at + Len(data)) |->
        IF i > at /\ i <= at + Len(data) THEN data[i - at]
        ELSE IF i <= Len(f) THEN f[i] ELSE 0]

Flush(f, wbuf) == IF wbuf.data = <<>> THEN f ELSE ApplyWrite(f, wbuf.at, wbuf.data)

\* self._file_handle.seek(offset)
seek(io, offset) ==
    IF io.err # "None" THEN io
    ELSE IF io.state # "open" THEN [io EXCEPT !.err = "ValueError"]
    ELSE [io EXCEPT !.file = Flush(io.file, io.wbuf), !.wbuf = NoWrite,
                    !.pos = offset]

\* self._file_handle.write(b), b the result of bytes.fromhex
write(io, b) ==
    IF io.err # "None" THEN io
    ELSE IF ~b.ok \/ io.state # "open" THEN [io EXCEPT !.err = "ValueError"]
    ELSE [io EXCEPT
            !.wbuf = [at   |-> IF @.data = <<>> THEN io.pos ELSE @.at,
                      data |-> @.data \o b.val],
            !.pos = @ + Len(b.val),
            !.wrote = @ \cup (io.pos .. (io.pos + Len(b.val) - 1))]

\* name = bytes.fromhex(...): raises ValueError before anything later runs
assign(io, b) ==
    IF io.err # "None" THEN io
    ELSE IF ~b.ok THEN [io EXCEPT !.err = "ValueError"]
    ELSE io

Seek(offset) == [op |-> "seek", offset |-> offset, b |-> fromhex(<<>>)]

Write(b) == [op |-> "write", offset |-> 0, b |-> b]

Assign(b) == [op |-> "assign", offset |-> 0, b |-> b]

\* the statements of a branch, run in order
RECURSIVE Run(_, _)
Run(io, stmts) ==
    IF Len(stmts) = 0 THEN io
    ELSE LET st == Head(stmts)
             next == CASE st.op = "seek" -> seek(io, st.offset)
                       [] st.op = "write" -> write(io, st.b)
                       [] OTHER -> assign(io, st.b)
         IN  Run(next, Tail(stmts))

\* the loop stopping one byte early: for i in range(first, stop - 1)
PadRangeShort(first, stop, padding) ==
    [k \in 1..(2 * (stop - first - 1)) |->
        IF k % 2 = 1 THEN Seek(first + ((k - 1) \div 2)) ELSE Write(padding)]

\* for i in range(first, stop): seek(i); write(padding)
PadRange(first, stop, padding) ==
    [k \in 1..(2 * (stop - first)) |->
        IF k % 2 = 1 THEN Seek(first + ((k - 1) \div 2)) ELSE Write(padding)]

\* SaveEditor.set_cat_food(amount)
set_cat_food_body(io, amount) ==
    LET hex_value == SliceFrom(hex(amount), 2)
        length == Len(hex_value)
        padding == fromhex(<<"0", "0">>)
    IN  IF io.state = "None" THEN [io EXCEPT !.err = "RuntimeError"]
        ELSE CASE length = 1 ->
                    Run(io, <<Seek(7), Write(fromhex(<<"0">> \o hex_value)),
                              Seek(8), Write(padding),
                              Seek(9), Write(padding)>>)
               [] length = 2 ->
                    Run(io, <<Seek(7), Write(fromhex(hex_value)),
                              Seek(8), Write(padding),
                              Seek(9), Write(padding)>>)
               [] length = 3 ->
                    LET byte1 == fromhex(<<"0">> \o SliceTo(hex_value, 1))
                        byte2 == fromhex(SliceFrom(hex_value, 1))
                    IN  Run(io, <<Assign(byte1), Assign(byte2),
                                  Seek(7), Write(byte2),
                                  Seek(8), Write(byte1),
                                  Seek(9), Write(padding)>>)
               [] length = 4 ->
                    LET byte1 == fromhex(Slice(hex_value, -4, -2))
                        byte2 == fromhex(SliceFrom(hex_value, -2))
                    IN  Run(io, <<Assign(byte1), Assign(byte2),
                                  Seek(7), Write(byte2),
                                  Seek(8), Write(byte1),
                                  Seek(9), Write(padding)>>)
               [] OTHER -> io

\* SaveEditor.set_xp(amount)
set_xp_body(io, amount) ==
    LET hex_value == SliceFrom(hex(amount), 2)
        length == Len(hex_value)
        padding == fromhex(<<"0", "0">>)
    IN  IF io.state = "None" THEN [io EXCEPT !.err = "RuntimeError"]
        ELSE CASE length = 1 ->
                    Run(io, <<Seek(76), Write(fromhex(<<"0">> \o hex_value))>>
                            \o PadRange(77, 80, padding))
               [] length = 2 ->
                    Run(io, <<Seek(76), Write(fromhex(hex_value))>>
                            \o PadRange(77, 80, padding))
               [] length = 3 ->
                    LET byte1 == fromhex(<<"0">> \o SliceTo(hex_value, 1))
                        byte2 == fromhex(SliceFrom(hex_value, 1))
                    IN  Run(io, <<Assign(byte1), Assign(byte2),
                                  Seek(76), Write(byte2),
                                  Seek(77), Write(byte1)>>
                                \o PadRange(78, 80, padding))
               [] length = 4 ->
                    LET byte1 == fromhex(Slice(hex_value, -4, -2))
                        byte2 == fromhex(SliceFrom(hex_value, -2))
                    IN  Run(io, <<Assign(byte1), Assign(byte2),
                                  Seek(76), Write(byte2),
                                  Seek(77), Write(byte1)>>
                                \o PadRange(78, 80, padding))
               [] length = 5 ->
                    LET byte1 == fromhex(<<"0">> \o SliceTo(hex_value, 1))
                        byte2 == fromhex(Slice(hex_value, 1, 3))
                        byte3 == fromhex(SliceFrom(hex_value, 3))
                    IN  Run(io, <<Assign(byte1), Assign(byte2), Assign(byte3),
                                  Seek(76), Write(byte3),
                                  Seek(77), Write(byte2),
                                  Seek(78), Write(byte1),
                                  Seek(79), Write(padding)>>)
               [] length = 6 ->
                    LET byte1 == fromhex(SliceFrom(hex_value, 4))
                        byte2 == fromhex(Slice(hex_value, 2, 4))
                        byte3 == fromhex(SliceTo(hex_value, 2))
                    IN  Run(io, <<Assign(byte1), Assign(byte2), Assign(byte3),
                                  Seek(76), Write(byte1),
                                  Seek(77), Write(byte2),
                                  Seek(78), Write(byte3),
                                  Seek(79), Write(padding)>>)
               [] length = 7 ->
                    LET byte1 == fromhex(SliceFrom(hex_value, 5))
                        byte2 == fromhex(Slice(hex_value, 3, 5))
                        byte3 == fromhex(Slice(hex_value, 1, 3))
                        byte4 == fromhex(<<"0">> \o SliceTo(hex_value, 1))
                    IN  Run(io, <<Assign(byte1), Assign(byte2), Assign(byte3),
                                  Assign(byte4),
                                  Seek(76), Write(byte1),
                                  Seek(77), Write(byte2),
                                  Seek(78), Write(byte3),
                                  Seek(79), Write(byte4)>>)
               [] OTHER -> io

(***************************************************************************)
(* bytes.decode(): strict UTF-8.  The result is the sequence of code       *)
(* points, or UnicodeDecodeError (ok = FALSE).                             *)
(***************************************************************************)
\* the length of the well-formed sequence that starts at bs[i], 0 if none
Utf8Len(bs, i) ==
    LET b == bs[i]
        cont(k) == i + k <= Len(bs) /\ bs[i + k] >= 128 /\ bs[i + k] <= 191
    IN  CASE b < 128 -> 1
          [] b >= 194 /\ b <= 223 /\ cont(1) -> 2
          [] b = 224 /\ cont(1) /\ bs[i + 1] >= 160 /\ cont(2) -> 3
          [] b >= 225 /\ b <= 239 /\ b # 237 /\ cont(1) /\ cont(2) -> 3
          [] b = 237 /\ cont(1) /\ bs[i + 1] <= 159 /\ cont(2) -> 3
          [] b = 240 /\ cont(1) /\ bs[i + 1] >= 144 /\ cont(2) /\ cont(3) -> 4
          [] b >= 241 /\ b <= 243 /\ cont(1) /\ cont(2) /\ cont(3) -> 4
          [] b = 244 /\ cont(1) /\ bs[i + 1] <= 143 /\ cont(2) /\ cont(3) -> 4
          [] OTHER -> 0

Utf8Point(bs, i, n) ==
    CASE n = 1 -> bs[i]
      [] n = 2 -> (bs[i] - 192) * 64 + (bs[i + 1] - 128)
      [] n = 3 -> (bs[i] - 224) * 4096 + (bs[i + 1] - 128) * 64 + (bs[i + 2] - 128)
      [] OTHER -> (bs[i] - 240) * 262144 + (bs[i + 1] - 128) * 4096
                  + (bs[i + 2] - 128) * 64 + (bs[i + 3] - 128)

RECURSIVE DecodeFrom(_, _)
DecodeFrom(bs, i) ==
    IF i > Len(bs) THEN [ok |-> TRUE, val |-> <<>>]
    ELSE LET n == Utf8Len(bs, i)
         IN  IF n = 0 THEN [ok |-> FALSE, val |-> <<>>]
             ELSE LET rest == DecodeFrom(bs, i + n)
                  IN  IF rest.ok
                      THEN [ok |-> TRUE, val |-> <<Utf8Point(bs, i, n)>> \o rest.val]
                      ELSE rest

decode(bs) == DecodeFrom(bs, 1)

(***************************************************************************)
(* SaveEditor.patch_checksum(save_path), on the file as it is on disk.     *)
(***************************************************************************)
\* Config.CHECKSUM_SALT = b'battlecatsen'
CHECKSUM_SALT == <<98, 97, 116, 116, 108, 101, 99, 97, 116, 115, 101, 110>>

\* the digest without the salt: hashlib.md5(data).hexdigest()
NewChecksumUnsalted(data) == HexOfBytes(Md5(data))

\* hashlib.md5(Config.CHECKSUM_SALT + data).hexdigest()
NewChecksum(data) == HexOfBytes(Md5(CHECKSUM_SALT \o data))

\* the comparison without the decode: new_checksum != checksum, a str
\* against bytes, which never compare equal
NeedsPatchUndecoded(new_checksum, stored) == TRUE

\* new_checksum != checksum.decode(), checksum having decoded to stored
NeedsPatch(new_checksum, stored) == StrCodes(new_checksum) # stored

\* the seek to the end of the file: f.seek(0, os.SEEK_END)
TagOffsetAtEnd(f) == Len(f)

\* where f.seek(-32, os.SEEK_END) leaves the position
TagOffset(f) == Len(f) - 32

\* a seek that accepts any offset: f.seek(max(0, len - 32))
SeekAccepts(f) == FALSE

\* f.seek(-32, os.SEEK_END) raises OSError (EINVAL) when it would leave the
\* position before the start of the file
SeekRaises(f) == TagOffset(f) < 0

\* the comparison and the write, new_checksum being the digest computed and
\* stored what checksum.decode() gave
patch_checksum_write(f, new_checksum, stored) ==
    IF ~stored.ok
    THEN [file |-> f, result |-> "UnicodeDecodeError", wrote |-> {}]
    ELSE IF NeedsPatch(new_checksum, stored.val)
    THEN IF SeekRaises(f)
         THEN [file |-> f, result |-> "OSError", wrote |-> {}]
         ELSE [file |-> ApplyWrite(f, TagOffset(f),
                                   hexlify(fromhex(new_checksum).val)),
               result |-> "True",
               wrote |-> TagOffset(f) .. (TagOffset(f) + 31)]
    ELSE [file |-> f, result |-> "False", wrote |-> {}]

\* the file afterwards and what the call returned or raised
patch_checksum_body(f) ==
    LET raw_data == f
        data == SliceTo(raw_data, -32)
        checksum == SliceFrom(raw_data, -32)
    IN  patch_checksum_write(f, NewChecksum(data), decode(checksum))

(***************************************************************************)
(* The state: the save file on disk, the editor's handle, and a record of  *)
(* the calls made.                                                         *)
(***************************************************************************)
VARIABLES
    file,           \* the bytes of the save file on disk
    file_handle,    \* self._file_handle: state "None", "open" or "closed"
    last,           \* the last call: what, with which amount, how it ended
    prev,           \* the call before it
    pre,            \* the file and the handle as the last call found them
    calls           \* the number of calls made

\* BattleCatsEditor.run: where the run stands and what it has done
VARIABLES
    pc,             \* the step run() is at; "done" once it has returned
    attempt,        \* the local attempt of _download_save
    cat_food_limit, \* self.cat_food_limit
    exit_code,      \* what run() returned; -1 while it has not
    choices,        \* how many menu choices the user has made
    asked,          \* the last amount prompt: field, entry, state it found
    uploaded,       \* whether upload_save was called, and with which bytes
    trace           \* the calls the run made on the network and the save

workflow ==
    <<pc, attempt, cat_food_limit, exit_code, choices, asked, uploaded, trace>>

editor == <<file, file_handle, last, prev, pre, calls>>

vars == <<file, file_handle, last, prev, pre, calls, pc, attempt,
          cat_food_limit, exit_code, choices, asked, uploaded, trace>>

\* how many calls a run makes
MaxCalls == 3

\* the save files a run starts from: n bytes, the last 32 the checksum tag
FileLens == {0, 8, 32, 40, 112}

FillBytes == {0, 255}

TagKinds == {"valid", "stale", "binary"}

Tag(kind, data) ==
    CASE kind = "valid"  -> hexlify(Md5(CHECKSUM_SALT \o data))
      [] kind = "stale"  -> [i \in 1..32 |-> 48]
      [] OTHER           -> [i \in 1..32 |-> 255]

SaveFile(n, fill, kind) ==
    IF n < 32 THEN [i \in 1..n |-> fill]
    ELSE LET data == [i \in 1..(n - 32) |-> fill]
         IN  data \o Tag(kind, data)

\* the amounts the callers pass: every length of hex(amount)[2:] the two
\* methods tell apart, the ends of the fields' ranges, and a negative one
CatFoodAmounts ==
    {NegInt(0, 1), PosInt(0, 0), PosInt(0, 232), PosInt(0, 1000),
     PosInt(0, 40000), PosInt(1, 0), PosInt(255, 65535), PosInt(256, 0)}

XpAmounts ==
    {NegInt(0, 1), PosInt(0, 0), PosInt(0, 255), PosInt(0, 1000),
     PosInt(0, 40000), PosInt(1, 9029), PosInt(76, 19264),
     PosInt(1525, 57599), PosInt(4096, 0), PosInt(65535, 65535),
     PosInt(65536, 0)}

NoAmount == PosInt(0, 0)

\* BattleCatsEditor.__init__: the default limit, nothing done yet
NoEntry == [text |-> FALSE, val |-> NoAmount]

NotAsked ==
    [field |-> "none", entry |-> NoEntry, choice |-> 0, calls |-> 0,
     buffer |-> <<>>]

NewRun ==
    /\ attempt = 0
    /\ cat_food_limit = PosInt(0, 40000)
    /\ exit_code = -1
    /\ choices = 0
    /\ asked = NotAsked
    /\ uploaded = [called |-> FALSE, save_data |-> <<>>]
    /\ trace = <<>>

\* SaveEditor.__init__: the handle is None; the file is the downloaded save
Init ==
    /\ pc = "editor" /\ NewRun
    /\ file \in {SaveFile(n, fill, kind) :
                    n \in FileLens, fill \in FillBytes, kind \in TagKinds}
    /\ file_handle = [state |-> "None", pos |-> 0, wbuf |-> NoWrite]
    /\ last = [op |-> "__init__", amount |-> NoAmount, result |-> "None",
               wrote |-> {}]
    /\ prev = [op |-> "__init__", result |-> "None"]
    /\ pre = [file |-> file, handle |-> file_handle]
    /\ calls = 0

IoOf ==
    [file |-> file, state |-> file_handle.state, pos |-> file_handle.pos,
     wbuf |-> file_handle.wbuf, err |-> "None", wrote |-> {}]

\* a call of the editor ends with the file and the handle as io has them
Effect(op, amount, io) ==
    /\ file' = io.file
    /\ file_handle' = [state |-> io.state, pos |-> io.pos, wbuf |-> io.wbuf]
    /\ last' = [op |-> op, amount |-> amount, result |-> io.err,
                wrote |-> io.wrote]
    /\ prev' = [op |-> last.op, result |-> last.result]
    /\ pre' = [file |-> file, handle |-> file_handle]
    /\ calls' = calls + 1

\* a call made on the editor directly
Call(op, amount, io) ==
    /\ calls < MaxCalls
    /\ Effect(op, amount, io)
    /\ UNCHANGED workflow

\* SaveEditor.__enter__: a new handle at offset 0.  A handle it replaces is
\* released, which closes it and so flushes what it had buffered.
Entered ==
    [IoOf EXCEPT !.file = Flush(file, file_handle.wbuf),
                 !.state = "open", !.pos = 0, !.wbuf = NoWrite]

__enter__ == Call("__enter__", NoAmount, Entered)

\* SaveEditor.__exit__: close() flushes; a closed file object is still truthy
Closed(io) ==
    IF io.state = "None" THEN io
    ELSE [io EXCEPT !.file = Flush(io.file, io.wbuf),
                    !.state = "closed", !.wbuf = NoWrite]

__exit__ == Call("__exit__", NoAmount, Closed(IoOf))

set_cat_food(amount) ==
    Call("set_cat_food", amount, set_cat_food_body(IoOf, amount))

set_xp(amount) ==
    Call("set_xp", amount, set_xp_body(IoOf, amount))

\* the static method opens the file itself: it sees the bytes on disk
PatchEffect(r) ==
    /\ file' = r.file
    /\ file_handle' = file_handle
    /\ last' = [op |-> "patch_checksum", amount |-> NoAmount,
                result |-> r.result, wrote |-> r.wrote]
    /\ prev' = [op |-> last.op, result |-> last.result]
    /\ pre' = [file |-> file, handle |-> file_handle]
    /\ calls' = calls + 1

PatchCall(r) ==
    /\ calls < MaxCalls
    /\ PatchEffect(r)
    /\ UNCHANGED workflow

patch_checksum == PatchCall(patch_checksum_body(file))

Next ==
    \/ __enter__
    \/ __exit__
    \/ \E amount \in CatFoodAmounts : set_cat_food(amount)
    \/ \E amount \in XpAmounts : set_xp(amount)
    \/ patch_checksum

Spec == Init /\ [][Next]_vars

(***************************************************************************)
(* BattleCatsEditor.run: check the server, download the save, edit it in   *)
(* the menu loop, patch the checksum, upload.  A step runs from one prompt *)
(* or network answer to the next.                                          *)
(***************************************************************************)
\* a < b on Python ints
MagLess(a, b) == a.hi < b.hi \/ (a.hi = b.hi /\ a.lo < b.lo)

IntLess(a, b) ==
    IF a.neg # b.neg THEN a.neg
    ELSE IF a.neg THEN MagLess(b, a) ELSE MagLess(a, b)

\* Config.MAX_XP = 99999999
MAX_XP == PosInt(1525, 57599)

\* max_attempts = 3 in _download_save
max_attempts == 3

\* how many menu choices other than "3" a run makes
MaxChoices == 2

\* Optional[int]
None == [none |-> TRUE, val |-> NoAmount]

Some(amount) == [none |-> FALSE, val |-> amount]

\* what the user types at an amount prompt: an integer, or no number at all
Typed(amount) == [text |-> FALSE, val |-> amount]

NotANumber == [text |-> TRUE, val |-> NoAmount]

\* the prompt checking only the upper end: if amount > max_amount
get_cat_food_amount_unsigned(entry, max_amount) ==
    IF entry.text THEN None
    ELSE IF IntLess(max_amount, entry.val) THEN None
    ELSE Some(entry.val)

\* UIHandler.get_cat_food_amount: int() raises ValueError on what is no
\* number, and a negative or too large amount is turned down
get_cat_food_amount(entry, max_amount) ==
    IF entry.text THEN None
    ELSE IF IntLess(entry.val, PosInt(0, 0)) \/ IntLess(max_amount, entry.val)
    THEN None
    ELSE Some(entry.val)

\* UIHandler.get_xp_amount
get_xp_amount(entry, max_amount) ==
    IF entry.text THEN None
    ELSE IF IntLess(entry.val, PosInt(0, 0)) \/ IntLess(max_amount, entry.val)
    THEN None
    ELSE Some(entry.val)

\* what the user types: -1, 40000, 65536 / -1, 99999999, 100000000
CatFoodEntries ==
    {NotANumber, Typed(NegInt(0, 1)), Typed(PosInt(0, 40000)),
     Typed(PosInt(1, 0))}

XpEntries ==
    {NotANumber, Typed(NegInt(0, 1)), Typed(PosInt(1525, 57599)),
     Typed(PosInt(1525, 57600))}

\* check_server_status: maintenance or no answer, or a limit of 0 or 70000
ServerStatus ==
    {[success |-> FALSE, cat_food_limit |-> PosInt(0, 0)],
     [success |-> TRUE, cat_food_limit |-> PosInt(0, 0)],
     [success |-> TRUE, cat_food_limit |-> PosInt(1, 4464)]}

\* the saves the server hands out
DownloadedSaves ==
    {SaveFile(8, 0, "stale"), SaveFile(40, 0, "binary"),
     SaveFile(112, 255, "valid"), SaveFile(112, 255, "stale")}

\* download_save: no success, success with no content, success with a save
DownloadResults ==
    {[success |-> FALSE, save_data |-> <<>>],
     [success |-> TRUE, save_data |-> <<>>]}
        \cup {[success |-> TRUE, save_data |-> f] : f \in DownloadedSaves}

DownloadEvent(r) ==
    IF ~r.success THEN "download_failed"
    ELSE IF r.save_data = <<>> THEN "download_empty"
    ELSE "download_data"

RunInit ==
    /\ pc = "check_server" /\ NewRun
    /\ file = <<>>
    /\ file_handle = [state |-> "None", pos |-> 0, wbuf |-> NoWrite]
    /\ last = [op |-> "__init__", amount |-> NoAmount, result |-> "None",
               wrote |-> {}]
    /\ prev = [op |-> "__init__", result |-> "None"]
    /\ pre = [file |-> file, handle |-> file_handle]
    /\ calls = 0

\* run() returns
Return(code) == pc' = "done" /\ exit_code' = code

\* run() goes on to the step at
Goto(at) == pc' = at /\ exit_code' = exit_code

\* _check_server
_check_server ==
    /\ pc = "check_server"
    /\ \E status \in ServerStatus :
        /\ IF ~status.success
           THEN Return(1) /\ cat_food_limit' = cat_food_limit
           ELSE /\ Goto("download")
                /\ cat_food_limit' =
                      IF status.cat_food_limit # PosInt(0, 0)
                      THEN status.cat_food_limit ELSE cat_food_limit
    /\ trace' = Append(trace, "check_server_status")
    /\ UNCHANGED <<editor, attempt, choices, asked, uploaded>>

\* the test taking any success: if success
DownloadedAny(success, save_data) == success

\* if success and save_data
Downloaded(success, save_data) == success /\ save_data # <<>>

\* _download_save: one turn of its loop
_download_save ==
    /\ pc = "download"
    /\ \E r \in DownloadResults :
        IF Downloaded(r.success, r.save_data)
        THEN /\ file' = r.save_data
             /\ trace' = trace \o <<DownloadEvent(r), "save_to_file">>
             /\ Goto("edit")
             /\ attempt' = attempt
        ELSE /\ file' = file
             /\ trace' = Append(trace, DownloadEvent(r))
             /\ attempt' = attempt + 1
             /\ IF attempt + 1 < max_attempts
                THEN Goto("download") ELSE Return(1)
    /\ UNCHANGED <<file_handle, last, prev, pre, calls, cat_food_limit,
                   choices, asked, uploaded>>

\* _edit_save: with SaveEditor(self.save_path) as editor, up to the menu
_edit_save ==
    /\ pc = "edit"
    /\ Effect("__enter__", NoAmount, Entered)
    /\ Goto("menu")
    /\ UNCHANGED <<attempt, cat_food_limit, choices, asked, uploaded, trace>>

\* editor.set_*(amount) inside the with block: an exception leaves the
\* block, which closes the handle, and run() returns 1
Edited(op, amount, io) ==
    /\ Effect(op, amount, IF io.err # "None" THEN Closed(io) ELSE io)
    /\ trace' = Append(trace, op)
    /\ IF io.err # "None" THEN Return(1) ELSE Goto("menu")

NotEdited == UNCHANGED <<editor, trace>> /\ Goto("menu")

Ask(field, entry) ==
    /\ choices < MaxChoices
    /\ choices' = choices + 1
    /\ asked' = [field |-> field, entry |-> entry, choice |-> choices + 1,
                 calls |-> calls, buffer |-> Flush(file, file_handle.wbuf)]
    /\ UNCHANGED <<attempt, cat_food_limit, uploaded>>

\* choice '1': _edit_cat_food.  Its loop on amount > self.cat_food_limit
\* asks again until the amount is None or within the limit.
_edit_cat_food ==
    /\ pc = "menu"
    /\ \E entry \in CatFoodEntries :
        LET amount == get_cat_food_amount(entry, cat_food_limit)
        IN  /\ Ask("cat_food", entry)
            /\ IF amount.none \/ IntLess(cat_food_limit, amount.val)
               THEN NotEdited
               ELSE Edited("set_cat_food", amount.val,
                           set_cat_food_body(IoOf, amount.val))

\* choice '2': _edit_xp
_edit_xp ==
    /\ pc = "menu"
    /\ \E entry \in XpEntries :
        LET amount == get_xp_amount(entry, MAX_XP)
        IN  /\ Ask("xp", entry)
            /\ IF amount.none \/ IntLess(MAX_XP, amount.val)
               THEN NotEdited
               ELSE Edited("set_xp", amount.val,
                           set_xp_body(IoOf, amount.val))

\* any other choice: the menu is shown again
menu_again ==
    /\ pc = "menu"
    /\ choices < MaxChoices
    /\ choices' = choices + 1
    /\ Goto("menu")
    /\ UNCHANGED <<editor, attempt, cat_food_limit, asked, uploaded, trace>>

\* choice '3': break, and the with block closes the handle
menu_finish ==
    /\ pc = "menu"
    /\ Effect("__exit__", NoAmount, Closed(IoOf))
    /\ Goto("finalize")
    /\ UNCHANGED <<attempt, cat_food_limit, choices, asked, uploaded, trace>>

\* the patch failure swallowed: try: patch_checksum(...) except: pass
PatchIgnored(result) == TRUE

\* patch_checksum returned rather than raised
PatchCompleted(result) == result \in {"True", "False"}

Finalize(r) ==
    /\ PatchEffect(r)
    /\ trace' = Append(trace, "patch_checksum")
    /\ IF PatchCompleted(r.result) THEN Goto("upload") ELSE Return(1)
    /\ UNCHANGED <<attempt, cat_food_limit, choices, asked, uploaded>>

\* _finalize_save, up to the pause before the upload
_finalize_save ==
    /\ pc = "finalize"
    /\ Finalize(patch_checksum_body(file))

\* SaveEditor.load_from_file
load_from_file(f) == f

\* _finalize_save from load_from_file on: the upload and what run() returns
upload_save ==
    /\ pc = "upload"
    /\ uploaded' = [called |-> TRUE, save_data |-> load_from_file(file)]
    /\ trace' = Append(trace, "upload_save")
    /\ \E success \in BOOLEAN : Return(IF success THEN 0 ELSE 1)
    /\ UNCHANGED <<editor, attempt, cat_food_limit, choices, asked>>

\* Ctrl-C at a prompt: the with block, if run() is in it, closes the handle
KeyboardInterrupt ==
    /\ pc \in {"download", "menu", "upload"}
    /\ file' = Closed(IoOf).file
    /\ file_handle' = [state |-> Closed(IoOf).state, pos |-> file_handle.pos,
                       wbuf |-> Closed(IoOf).wbuf]
    /\ Return(1)
    /\ UNCHANGED <<last, prev, pre, calls, attempt, cat_food_limit, choices,
                   asked, uploaded, trace>>

RunNext ==
    \/ _check_server
    \/ _download_save
    \/ _edit_save
    \/ _edit_cat_food
    \/ _edit_xp
    \/ menu_again
    \/ menu_finish
    \/ _finalize_save
    \/ upload_save
    \/ KeyboardInterrupt

RunSpec == RunInit /\ [][RunNext]_vars

(***************************************************************************)
(* What the claims speak of.                                               *)
(***************************************************************************)
\* the save buffer: the file with what the handle has buffered written
\* out, which is what a read through the handle sees and what close() leaves
Buffer == Flush(file, file_handle.wbuf)

PreBuffer == Flush(pre.file, pre.handle.wbuf)

\* all bytes but the last 32, and the last 32
DataOf(f) == SubSeq(f, 1, Len(f) - 32)

TagOf(f) == SubSeq(f, Len(f) - 31, Len(f))

\* the ASCII code of the lowercase hex digit of a nibble
AsciiHexDigit(n) == IF n < 10 THEN 48 + n ELSE 87 + n

\* hex(md5(salt || data)) as 32 ASCII bytes
ExpectedTag(f) ==
    LET digest == Md5(CHECKSUM_SALT \o DataOf(f))
    IN  [i \in 1..32 |->
            AsciiHexDigit(IF i % 2 = 1 THEN digest[(i + 1) \div 2] \div 16
                          ELSE digest[i \div 2] % 16)]

Patched == last.op = "patch_checksum"

PatchReturned == Patched /\ last.result \in {"True", "False"}

FieldEdit == last.op \in {"set_cat_food", "set_xp"}

\* the field the last call is about: its offset and width
Offset == IF last.op = "set_cat_food" THEN 7 ELSE 76

Width == IF last.op = "set_cat_food" THEN 3 ELSE 4

Window == Offset .. (Offset + Width - 1)

\* byte k (0 the least significant) of a non-negative amount
AmountByte(amount, k) ==
    CASE k = 0 -> amount.lo % 256
      [] k = 1 -> amount.lo \div 256
      [] k = 2 -> amount.hi % 256
      [] OTHER -> amount.hi \div 256

\* the bytes at offset .. offset+width-1 read as a little-endian unsigned
LittleEndian(buf, offset, width) ==
    PosInt(buf[offset + 3] + (IF width = 4 THEN 256 * buf[offset + 4] ELSE 0),
           buf[offset + 1] + 256 * buf[offset + 2])

\* 0 <= amount < 256^width
Fits(amount, width) ==
    ~amount.neg /\ amount.hi < (IF width = 3 THEN 256 ELSE 65536)

\* the call was made on an editor whose file was open
WasOpen == pre.handle.state = "open"

\* the buffer the call found was long enough to hold the field
HeldWindow == Len(PreBuffer) >= Offset + Width

\* C1: once patch_checksum has returned on a buffer of at least 32 bytes,
\* the last 32 bytes are the lowercase ASCII hex of md5(salt || data),
\* whatever the tag was before.
C1_TagIsDigest ==
    (PatchReturned /\ Len(pre.file) >= 32)
        => (Len(file) >= 32 /\ TagOf(file) = ExpectedTag(file))

C1_Witness ==
    /\ Patched /\ last.result = "True"
    /\ Len(pre.file) > 32
    /\ TagOf(pre.file) # ExpectedTag(pre.file)
    /\ TagOf(file) = ExpectedTag(file)

\* C2: a second patch_checksum right after one that succeeded changes no
\* byte and returns False (AlreadyValid).
C2_Idempotent ==
    (Patched /\ prev.op = "patch_checksum" /\ prev.result \in {"True", "False"})
        => (last.result = "False" /\ file = pre.file /\ last.wrote = {})

C2_Witness ==
    /\ Patched /\ last.result = "False"
    /\ prev.op = "patch_checksum" /\ prev.result = "True"
    /\ file = pre.file

\* C3: on a buffer of at least 32 bytes patch_checksum returns False and
\* writes nothing exactly when the stored tag is the digest, and in every
\* other case overwrites the tag and returns True.
C3_PatchedUnlessValid ==
    (Patched /\ Len(pre.file) >= 32)
        => IF TagOf(pre.file) = ExpectedTag(pre.file)
           THEN last.result = "False" /\ last.wrote = {} /\ file = pre.file
           ELSE last.result = "True" /\ TagOf(file) = ExpectedTag(pre.file)

\* C4: patch_checksum changes no byte before the last 32 and never the
\* length of the buffer.
C4_PatchFrame ==
    Patched
        => /\ Len(file) = Len(pre.file)
           /\ \A i \in 1..(Len(pre.file) - 32) : file[i] = pre.file[i]

C4_Witness ==
    /\ Patched /\ last.result = "True"
    /\ Len(pre.file) > 32
    /\ file # pre.file
    /\ DataOf(file) = DataOf(pre.file)

\* C5: for every value in [0, 2^24), bytes 7..9 after set_cat_food decode,
\* little-endian, to that value.
C5_CatFoodRoundTrip ==
    (last.op = "set_cat_food" /\ WasOpen /\ HeldWindow /\ Fits(last.amount, 3))
        => (Len(Buffer) >= 10 /\ LittleEndian(Buffer, 7, 3) = last.amount)

\* C6: for every value in [0, 2^32), bytes 76..79 after set_xp decode,
\* little-endian, to that value.
C6_XpRoundTrip ==
    (last.op = "set_xp" /\ WasOpen /\ HeldWindow /\ Fits(last.amount, 4))
        => (Len(Buffer) >= 80 /\ LittleEndian(Buffer, 76, 4) = last.amount)

\* C7: after a field edit the whole window holds the little-endian bytes of
\* the value just set, the unused high bytes 0x00, whatever an earlier edit
\* left there.
C7_FullWidthOverwrite ==
    (FieldEdit /\ WasOpen /\ HeldWindow /\ Fits(last.amount, Width))
        => /\ Len(Buffer) >= Offset + Width
           /\ \A k \in 0..(Width - 1) :
                 Buffer[Offset + k + 1] = AmountByte(last.amount, k)

\* C8: a value that does not fit the field's width makes the call fail; it
\* never returns normally.
C8_OutOfRangeFails ==
    (FieldEdit /\ WasOpen /\ HeldWindow /\ ~last.amount.neg
        /\ ~Fits(last.amount, Width))
        => last.result # "None"

\* C9: a field edit either writes every byte of the window or fails having
\* changed no byte of the buffer.
C9_AtomicEdit ==
    (FieldEdit /\ HeldWindow)
        => \/ Window \subseteq last.wrote
           \/ last.result # "None" /\ last.wrote = {} /\ Buffer = PreBuffer

\* C10: a field edit leaves the length of the buffer as it was.
C10_LengthKept == FieldEdit => Len(Buffer) = Len(PreBuffer)

C12_NeverRaises ==
    (Patched /\ Len(pre.file) >= 32) => last.result \in {"True", "False"}

\* C15: for every amount of 1 to 7 hex digits (0 <= amount < 16^7), set_xp on
\* an open editor leaves bytes 76..79 equal to the four little-endian bytes
\* of the amount; 5000000 gives 0x40 0x4B 0x4C 0x00.
C15_XpSevenDigits ==
    (last.op = "set_xp" /\ WasOpen /\ ~last.amount.neg
        /\ last.amount.hi < 4096)
        => /\ last.result = "None"
           /\ Len(Buffer) >= 80
           /\ \A k \in 0..3 : Buffer[76 + k + 1] = AmountByte(last.amount, k)

C15_Witness ==
    /\ last.op = "set_xp" /\ WasOpen
    /\ last.amount = PosInt(76, 19264)
    /\ Len(PreBuffer) >= 80 /\ PreBuffer[80] = 255
    /\ SubSeq(Buffer, 77, 80) = <<64, 75, 76, 0>>

\* C16: set_cat_food and set_xp on an editor whose file is not open, never
\* entered or already exited, raise RuntimeError and write nothing.
C16_NotOpenRaises ==
    (FieldEdit /\ ~WasOpen)
        => /\ last.result = "RuntimeError"
           /\ last.wrote = {}
           /\ Buffer = PreBuffer

\* where in the trace the run made a call of one of the kinds
At(kinds) == {i \in 1..Len(trace) : trace[i] \in kinds}

Edits == At({"set_cat_food", "set_xp"})

Patches == At({"patch_checksum"})

Uploads == At({"upload_save"})

Downloads == At({"download_failed", "download_empty", "download_data"})

\* C13: in every run all field edits come before the one checksum patch pass,
\* none after it, and upload_save is called only once the patch pass has
\* completed, so the bytes handed to it carry the digest of their data.
C13_EditPatchUpload ==
    /\ Cardinality(Patches) <= 1
    /\ \A e \in Edits : \A p \in Patches : e < p
    /\ \A u \in Uploads : \E p \in Patches : p < u
    /\ \A u \in Uploads : \A e \in Edits : e < u
    /\ uploaded.called <=> Uploads # {}
    /\ uploaded.called
        => /\ Len(uploaded.save_data) >= 32
           /\ TagOf(uploaded.save_data) = ExpectedTag(uploaded.save_data)
           /\ uploaded.save_data = file

C13_Witness ==
    /\ uploaded.called
    /\ Cardinality(Edits) = 2
    /\ last.op = "patch_checksum" /\ last.result = "True"
    /\ exit_code = 0

\* the entry is one the caller has to turn down: no number, negative, or
\* above the maximum of its field
TurnedDown(field, entry) ==
    \/ entry.text
    \/ entry.val.neg
    \/ IntLess(IF field = "cat_food" THEN cat_food_limit
               ELSE PosInt(1525, 57599), entry.val)

\* C14: in every run set_cat_food is called only with 0 <= amount <=
\* cat_food_limit and set_xp only with 0 <= amount <= 99999999; an entry that
\* is negative, too large or no number leads to no encoder call and leaves
\* the buffer as it was.
C14_CallerRejects ==
    /\ last.op = "set_cat_food"
        => ~last.amount.neg /\ ~IntLess(cat_food_limit, last.amount)
    /\ last.op = "set_xp"
        => ~last.amount.neg /\ ~IntLess(PosInt(1525, 57599), last.amount)
    /\ (pc = "menu" /\ asked.field # "none" /\ asked.choice = choices
            /\ TurnedDown(asked.field, asked.entry))
        => /\ calls = asked.calls
           /\ Buffer = asked.buffer
    /\ (asked.field # "none" /\ asked.choice = choices
            /\ ~TurnedDown(asked.field, asked.entry) /\ pc = "menu")
        => /\ calls = asked.calls + 1
           /\ last.op = (IF asked.field = "cat_food" THEN "set_cat_food"
                         ELSE "set_xp")
           /\ last.amount = asked.entry.val

C14_Witness ==
    /\ pc = "menu" /\ asked.choice = choices
    /\ asked.field = "xp" /\ asked.entry = Typed(NegInt(0, 1))
    /\ last.op = "set_cat_food" /\ last.amount = PosInt(0, 40000)
    /\ calls = asked.calls
    /\ Buffer = asked.buffer

\* C17: the download step makes at most 3 attempts and stops at the first
\* that succeeds with non-empty data; the save file is written only on such a
\* success; when all 3 fail the run ends with exit code 1 and no field edit,
\* checksum patch or upload takes place.
C17_DownloadAttempts ==
    /\ Cardinality(Downloads) <= 3
    /\ \A i \in Downloads :
          trace[i] = "download_data"
              => /\ \A j \in Downloads : j <= i
                 /\ i < Len(trace) /\ trace[i + 1] = "save_to_file"
    /\ \A i \in At({"save_to_file"}) : i > 1 /\ trace[i - 1] = "download_data"
    /\ At({"download_data"}) = {} => file = <<>>
    /\ (Cardinality(Downloads) = 3 /\ At({"download_data"}) = {})
        => /\ pc = "done" /\ exit_code = 1
           /\ Edits = {} /\ Patches = {} /\ Uploads = {}
           /\ calls = 0 /\ ~uploaded.called

C17_Witness ==
    /\ Cardinality(At({"download_failed", "download_empty"})) = 3
    /\ At({"download_empty"}) # {}
    /\ pc = "done" /\ exit_code = 1
    /\ file = <<>>

=============================================================================
